---- MODULE Spec2Model ----
(***************************************************************************)
(* Model of the vote program of src/src/lib.rs: one entrypoint,            *)
(* process_instruction, that checks the owner of the first account,        *)
(* deserializes its data as a borsh VoteAccount (three u32), increments    *)
(* the counter selected by instruction_data[0] and serializes the record   *)
(* back into the same data buffer.                                         *)
(*                                                                         *)
(* A u32 is kept at its full width.  TLC's integers are 32-bit signed, so  *)
(* a u32 value v is the record [hi, lo] of its two 16-bit halves,          *)
(* v = hi * 65536 + lo, and a byte is an integer 0..255.                   *)
(***************************************************************************)
EXTENDS Integers, Sequences, FiniteSets, TLC

\* ------------------------------------------------------------------ bounds
\* Invocations per behaviour from an arbitrary ledger.
MaxCalls == 2
\* Invocations per behaviour from the ledger test_sanity sets up.
MaxSanityCalls == 3

\* ------------------------------------------------------- program constants
\* Number of values of a byte and of a 16-bit half of a u32.
ByteRange == 256
HalfRange == 65536
\* Width in bytes of one u32 field of VoteAccount.
FieldWidth == 4

\* The program's own public key, and the keys an account owner can have.
program_id == "vote_program"
Pubkeys == {"vote_program", "other_program"}

\* Keys of the accounts of the ledger.
AccountKeys == {1, 2}

VARIABLES
    ledger,            \* account key -> [owner, data]: the durable accounts
    overflow_checks,   \* build profile: TRUE panics on u32 overflow, FALSE wraps
    calls,             \* number of invocations so far
    accounts,          \* the account keys passed to the last invocation
    instruction_data,  \* the payload of the last invocation
    before,            \* the ledger as it was when the last invocation started
    result,            \* how the last invocation ended
    vote_account,      \* the in-memory VoteAccount at the end of the last invocation
    written,           \* bytes the serializer wrote during the last invocation
    votes,             \* account key -> opcode -> successful invocations so far
    initial            \* the ledger the behaviour started from

vars == <<ledger, overflow_checks, calls, accounts, instruction_data, before,
          result, vote_account, written, votes, initial>>

\* ------------------------------------------------------------ u32 and bytes
U32(hi, lo) == [hi |-> hi, lo |-> lo]
U32Zero == U32(0, 0)
U32Max == U32(HalfRange - 1, HalfRange - 1)
\* The u32 of a small natural number.
U32Of(n) == U32(n \div HalfRange, n % HalfRange)

\* Mutant of from_le_bytes: the bytes taken most significant first.
from_be_bytes(b) == U32(b[2] + ByteRange * b[1], b[4] + ByteRange * b[3])

\* u32::from_le_bytes over 4 bytes: b[1] is the least significant byte.
from_le_bytes(b) == U32(b[3] + ByteRange * b[4], b[1] + ByteRange * b[2])

\* Mutant of to_le_bytes: the bytes written most significant first.
to_be_bytes(v) ==
    <<v.hi \div ByteRange, v.hi % ByteRange, v.lo \div ByteRange, v.lo % ByteRange>>

\* u32::to_le_bytes: least significant byte first.
to_le_bytes(v) ==
    <<v.lo % ByteRange, v.lo \div ByteRange, v.hi % ByteRange, v.hi \div ByteRange>>

\* u32 `+= 1`.  With overflow checks the addition panics at u32::MAX;
\* without them it wraps to 0.
AddOne(v, checks) ==
    IF v = U32Max
    THEN IF checks THEN [panic |-> TRUE, value |-> v]
                   ELSE [panic |-> FALSE, value |-> U32Zero]
    ELSE [panic |-> FALSE,
          value |-> IF v.lo = HalfRange - 1 THEN U32(v.hi + 1, 0)
                                            ELSE U32(v.hi, v.lo + 1)]

\* ------------------------------------------------------------------- borsh
VoteAccount(yes, abstained, no) == [yes |-> yes, abstained |-> abstained, no |-> no]
\* No record deserialized (yet): a record with no counters.
NoVoteAccount == [none |-> TRUE]

\* Mutant of read_u32: a short read is not an error, the missing high
\* bytes count as 0.
read_u32_padded(buf) ==
    IF buf = <<>>
    THEN [ok |-> FALSE, value |-> U32Zero, rest |-> buf]
    ELSE IF Len(buf) < FieldWidth
    THEN [ok |-> TRUE,
          value |-> from_le_bytes([i \in 1..FieldWidth |->
                                     IF i <= Len(buf) THEN buf[i] ELSE 0]),
          rest |-> <<>>]
    ELSE [ok |-> TRUE,
          value |-> from_le_bytes(SubSeq(buf, 1, FieldWidth)),
          rest |-> SubSeq(buf, FieldWidth + 1, Len(buf))]

\* u32::deserialize on a reader slice: takes 4 bytes off the front,
\* or fails when fewer than 4 are left.
read_u32(buf) ==
    IF Len(buf) < FieldWidth
    THEN [ok |-> FALSE, value |-> U32Zero, rest |-> buf]
    ELSE [ok |-> TRUE,
          value |-> from_le_bytes(SubSeq(buf, 1, FieldWidth)),
          rest |-> SubSeq(buf, FieldWidth + 1, Len(buf))]

\* The derived VoteAccount::deserialize: the fields in declaration order.
deserialize(buf) ==
    LET r1 == read_u32(buf)
        r2 == read_u32(r1.rest)
        r3 == read_u32(r2.rest)
    IN  IF ~r1.ok \/ ~r2.ok \/ ~r3.ok
        THEN [ok |-> FALSE, value |-> NoVoteAccount, rest |-> buf]
        ELSE [ok |-> TRUE,
              value |-> VoteAccount(r1.value, r2.value, r3.value),
              rest |-> r3.rest]

\* Mutant of try_from_slice: leftover bytes after the record are accepted.
try_from_slice_leftover(v) ==
    LET r == deserialize(v)
    IN  IF ~r.ok THEN [err |-> "BorshIoError(Unexpected length of input)",
                       value |-> NoVoteAccount]
        ELSE [err |-> "", value |-> r.value]

\* BorshDeserialize::try_from_slice: deserialize, then reject leftover bytes.
try_from_slice(v) ==
    LET r == deserialize(v)
    IN  IF ~r.ok THEN [err |-> "BorshIoError(Unexpected length of input)",
                       value |-> NoVoteAccount]
        ELSE IF r.rest # <<>> THEN [err |-> "BorshIoError(Not all bytes read)",
                                    value |-> NoVoteAccount]
        ELSE [err |-> "", value |-> r.value]

\* io::Write::write_all for a mutable slice: a writer is the buffer and the
\* position of the next byte.  It copies as many bytes as fit and fails with
\* WriteZero when some are left over.
write_all(w, bytes) ==
    LET room == Len(w.data) - w.pos
        n == IF Len(bytes) <= room THEN Len(bytes) ELSE room
    IN  [data |-> [i \in 1..Len(w.data) |->
                     IF i > w.pos /\ i <= w.pos + n THEN bytes[i - w.pos] ELSE w.data[i]],
         pos |-> w.pos + n,
         ok |-> w.ok /\ n = Len(bytes)]

\* The derived VoteAccount::serialize: the fields in declaration order, each
\* write short-circuiting (`?`) on failure.
serialize(t, data) ==
    LET w0 == [data |-> data, pos |-> 0, ok |-> TRUE]
        w1 == write_all(w0, to_le_bytes(t.yes))
        w2 == IF w1.ok THEN write_all(w1, to_le_bytes(t.abstained)) ELSE w1
        w3 == IF w2.ok THEN write_all(w2, to_le_bytes(t.no)) ELSE w2
    IN  [err |-> IF w3.ok THEN "" ELSE "BorshIoError(failed to write whole buffer)",
         data |-> w3.data,
         written |-> w3.pos]

\* ----------------------------------------------------- process_instruction
\* Mutant of Vote: opcode 1 increments `no` instead of `abstained`.
Vote_wrong_field(t, opcode, checks) ==
    LET field == CASE opcode = 0 -> t.yes
                   [] opcode = 1 -> t.no
                   [] opcode = 2 -> t.no
                   [] OTHER -> U32Zero
        r == AddOne(field, checks)
    IN  CASE opcode = 0 -> [panic |-> r.panic, value |-> [t EXCEPT !.yes = r.value]]
          [] opcode = 1 -> [panic |-> r.panic, value |-> [t EXCEPT !.no = r.value]]
          [] opcode = 2 -> [panic |-> r.panic, value |-> [t EXCEPT !.no = r.value]]
          [] OTHER -> [panic |-> FALSE, value |-> t]

\* Mutant of Vote: the default arm of the match counts as a `no` vote.
Vote_default_counts(t, opcode, checks) ==
    LET field == CASE opcode = 0 -> t.yes
                   [] opcode = 1 -> t.abstained
                   [] OTHER -> t.no
        r == AddOne(field, checks)
    IN  CASE opcode = 0 -> [panic |-> r.panic, value |-> [t EXCEPT !.yes = r.value]]
          [] opcode = 1 -> [panic |-> r.panic, value |-> [t EXCEPT !.abstained = r.value]]
          [] OTHER -> [panic |-> r.panic, value |-> [t EXCEPT !.no = r.value]]

\* Mutant of Vote: opcode 1 computes the new `abstained` from `yes`.
Vote_from_other_field(t, opcode, checks) ==
    LET field == CASE opcode = 0 -> t.yes
                   [] opcode = 1 -> t.yes
                   [] opcode = 2 -> t.no
                   [] OTHER -> U32Zero
        r == AddOne(field, checks)
    IN  CASE opcode = 0 -> [panic |-> r.panic, value |-> [t EXCEPT !.yes = r.value]]
          [] opcode = 1 -> [panic |-> r.panic, value |-> [t EXCEPT !.abstained = r.value]]
          [] opcode = 2 -> [panic |-> r.panic, value |-> [t EXCEPT !.no = r.value]]
          [] OTHER -> [panic |-> FALSE, value |-> t]

\* The match on instruction_data[0]: the selected counter `+= 1`.
Vote(t, opcode, checks) ==
    LET field == CASE opcode = 0 -> t.yes
                   [] opcode = 1 -> t.abstained
                   [] opcode = 2 -> t.no
                   [] OTHER -> U32Zero
        r == AddOne(field, checks)
    IN  CASE opcode = 0 -> [panic |-> r.panic, value |-> [t EXCEPT !.yes = r.value]]
          [] opcode = 1 -> [panic |-> r.panic, value |-> [t EXCEPT !.abstained = r.value]]
          [] opcode = 2 -> [panic |-> r.panic, value |-> [t EXCEPT !.no = r.value]]
          [] OTHER -> [panic |-> FALSE, value |-> t]

\* Outcome of one invocation on the account list accts (a sequence of
\* [owner, data] records): the result, the account list afterwards, the
\* in-memory record and the number of bytes serialized.
Outcome(res, accts, t, n) ==
    [result |-> res, accounts |-> accts, vote_account |-> t, written |-> n]

\* Mutant of process_instruction: the owner check is missing.
process_instruction_no_owner_check(pid, accts, instr, checks) ==
    IF accts = <<>>
    THEN Outcome("NotEnoughAccountKeys", accts, NoVoteAccount, 0)
    ELSE LET account == accts[1]
             d == try_from_slice(account.data)
         IN  IF d.err # ""
             THEN Outcome(d.err, accts, NoVoteAccount, 0)
             ELSE IF instr = <<>>
             THEN Outcome("Panic(index out of bounds)", accts, d.value, 0)
             ELSE LET v == Vote(d.value, instr[1], checks)
                      s == serialize(v.value, account.data)
                      out == [accts EXCEPT ![1].data = s.data]
                  IN  IF v.panic
                      THEN Outcome("Panic(attempt to add with overflow)", accts, d.value, 0)
                      ELSE IF s.err # ""
                      THEN Outcome(s.err, out, v.value, s.written)
                      ELSE Outcome("Ok", out, v.value, s.written)

\* Mutant of process_instruction: the record is updated in memory and never
\* serialized back into the account data.
process_instruction_not_persisted(pid, accts, instr, checks) ==
    IF accts = <<>>
    THEN Outcome("NotEnoughAccountKeys", accts, NoVoteAccount, 0)
    ELSE LET account == accts[1]
             d == try_from_slice(account.data)
         IN  IF account.owner # pid
             THEN Outcome("IncorrectProgramId", accts, NoVoteAccount, 0)
             ELSE IF d.err # ""
             THEN Outcome(d.err, accts, NoVoteAccount, 0)
             ELSE IF instr = <<>>
             THEN Outcome("Panic(index out of bounds)", accts, d.value, 0)
             ELSE LET v == Vote(d.value, instr[1], checks)
                  IN  IF v.panic
                      THEN Outcome("Panic(attempt to add with overflow)", accts, d.value, 0)
                      ELSE Outcome("Ok", accts, v.value, 0)

\* Mutant of process_instruction: the owner is checked after the record
\* has been serialized back instead of before it is read.
process_instruction_late_owner_check(pid, accts, instr, checks) ==
    IF accts = <<>>
    THEN Outcome("NotEnoughAccountKeys", accts, NoVoteAccount, 0)
    ELSE LET account == accts[1]
             d == try_from_slice(account.data)
         IN  IF d.err # ""
             THEN Outcome(d.err, accts, NoVoteAccount, 0)
             ELSE IF instr = <<>>
             THEN Outcome("Panic(index out of bounds)", accts, d.value, 0)
             ELSE LET v == Vote(d.value, instr[1], checks)
                      s == serialize(v.value, account.data)
                      out == [accts EXCEPT ![1].data = s.data]
                  IN  IF v.panic
                      THEN Outcome("Panic(attempt to add with overflow)", accts, d.value, 0)
                      ELSE IF s.err # ""
                      THEN Outcome(s.err, out, v.value, s.written)
                      ELSE IF account.owner # pid
                      THEN Outcome("IncorrectProgramId", out, v.value, s.written)
                      ELSE Outcome("Ok", out, v.value, s.written)

\* Mutant of process_instruction: the data is deserialized before the owner
\* is checked.
process_instruction_decode_first(pid, accts, instr, checks) ==
    IF accts = <<>>
    THEN Outcome("NotEnoughAccountKeys", accts, NoVoteAccount, 0)
    ELSE LET account == accts[1]
             d == try_from_slice(account.data)
         IN  IF d.err # ""
             THEN Outcome(d.err, accts, NoVoteAccount, 0)
             ELSE IF account.owner # pid
             THEN Outcome("IncorrectProgramId", accts, d.value, 0)
             ELSE IF instr = <<>>
             THEN Outcome("Panic(index out of bounds)", accts, d.value, 0)
             ELSE LET v == Vote(d.value, instr[1], checks)
                      s == serialize(v.value, account.data)
                      out == [accts EXCEPT ![1].data = s.data]
                  IN  IF v.panic
                      THEN Outcome("Panic(attempt to add with overflow)", accts, d.value, 0)
                      ELSE IF s.err # ""
                      THEN Outcome(s.err, out, v.value, s.written)
                      ELSE Outcome("Ok", out, v.value, s.written)

\* Mutant of process_instruction: the opcode is read from the last byte of
\* the payload instead of the first.
process_instruction_last_byte(pid, accts, instr, checks) ==
    IF accts = <<>>
    THEN Outcome("NotEnoughAccountKeys", accts, NoVoteAccount, 0)
    ELSE LET account == accts[1]
             d == try_from_slice(account.data)
         IN  IF account.owner # pid
             THEN Outcome("IncorrectProgramId", accts, NoVoteAccount, 0)
             ELSE IF d.err # ""
             THEN Outcome(d.err, accts, NoVoteAccount, 0)
             ELSE IF instr = <<>>
             THEN Outcome("Panic(index out of bounds)", accts, d.value, 0)
             ELSE LET v == Vote(d.value, instr[Len(instr)], checks)
                      s == serialize(v.value, account.data)
                      out == [accts EXCEPT ![1].data = s.data]
                  IN  IF v.panic
                      THEN Outcome("Panic(attempt to add with overflow)", accts, d.value, 0)
                      ELSE IF s.err # ""
                      THEN Outcome(s.err, out, v.value, s.written)
                      ELSE Outcome("Ok", out, v.value, s.written)

\* Mutant of process_instruction: the record is serialized into the data of
\* the last account of the list instead of the first.
process_instruction_last_account(pid, accts, instr, checks) ==
    IF accts = <<>>
    THEN Outcome("NotEnoughAccountKeys", accts, NoVoteAccount, 0)
    ELSE LET account == accts[1]
             d == try_from_slice(account.data)
         IN  IF account.owner # pid
             THEN Outcome("IncorrectProgramId", accts, NoVoteAccount, 0)
             ELSE IF d.err # ""
             THEN Outcome(d.err, accts, NoVoteAccount, 0)
             ELSE IF instr = <<>>
             THEN Outcome("Panic(index out of bounds)", accts, d.value, 0)
             ELSE LET v == Vote(d.value, instr[1], checks)
                      s == serialize(v.value, accts[Len(accts)].data)
                      out == [accts EXCEPT ![Len(accts)].data = s.data]
                  IN  IF v.panic
                      THEN Outcome("Panic(attempt to add with overflow)", accts, d.value, 0)
                      ELSE IF s.err # ""
                      THEN Outcome(s.err, out, v.value, s.written)
                      ELSE Outcome("Ok", out, v.value, s.written)

\* The entrypoint, in the order of the code: first account, owner check,
\* try_from_slice, instruction_data[0] (a panic on an empty payload), the
\* increment (a panic on overflow under overflow checks), serialize, Ok.
process_instruction(pid, accts, instr, checks) ==
    IF accts = <<>>
    THEN Outcome("NotEnoughAccountKeys", accts, NoVoteAccount, 0)
    ELSE LET account == accts[1]
             d == try_from_slice(account.data)
         IN  IF account.owner # pid
             THEN Outcome("IncorrectProgramId", accts, NoVoteAccount, 0)
             ELSE IF d.err # ""
             THEN Outcome(d.err, accts, NoVoteAccount, 0)
             ELSE IF instr = <<>>
             THEN Outcome("Panic(index out of bounds)", accts, d.value, 0)
             ELSE LET v == Vote(d.value, instr[1], checks)
                      s == serialize(v.value, account.data)
                      out == [accts EXCEPT ![1].data = s.data]
                  IN  IF v.panic
                      THEN Outcome("Panic(attempt to add with overflow)", accts, d.value, 0)
                      ELSE IF s.err # ""
                      THEN Outcome(s.err, out, v.value, s.written)
                      ELSE Outcome("Ok", out, v.value, s.written)

\* ------------------------------------------------------------------ inputs
\* Initial buffers of the right size.  Every field position holds, in some
\* buffer, 0, a value whose increment carries out of a byte (255, 511), out
\* of the low half (65535) and into the top byte (16777215), u32::MAX - 1
\* and u32::MAX; one buffer has twelve different bytes.
SizedBuffers ==
    {<<0, 0, 0, 0,  0, 0, 0, 0,  0, 0, 0, 0>>,
     <<255, 1, 0, 0,  0, 0, 0, 0,  255, 255, 255, 255>>,
     <<255, 255, 255, 255,  255, 255, 0, 0,  255, 1, 0, 0>>,
     <<255, 255, 0, 0,  255, 255, 255, 255,  0, 0, 0, 0>>,
     <<0, 0, 0, 0,  255, 1, 0, 0,  255, 255, 0, 0>>,
     <<255, 255, 255, 255,  255, 255, 255, 255,  255, 255, 255, 255>>,
     <<255, 255, 255, 0,  255, 0, 0, 0,  254, 255, 255, 255>>,
     <<1, 2, 3, 4,  5, 6, 7, 8,  9, 10, 11, 12>>}
\* Buffers one byte short or long, or empty.
MissizedBuffers ==
    {<<>>, <<0, 0, 0, 0, 0, 0, 0, 0, 0, 0, 0>>,
     <<255, 1, 0, 0, 0, 0, 0, 0, 255, 1, 0>>,
     <<0, 0, 0, 0, 0, 0, 0, 0, 0, 0, 0, 0, 0>>,
     <<255, 1, 0, 0, 0, 0, 0, 0, 255, 1, 0, 0, 7>>}
Buffers == SizedBuffers \cup MissizedBuffers

\* The data test_sanity starts from: VoteAccount {0, 0, 0}.try_to_vec().
ZeroBuffer == to_le_bytes(U32Zero) \o to_le_bytes(U32Zero) \o to_le_bytes(U32Zero)

\* The second account: a fresh tally of this program, or another program's data.
OtherAccounts ==
    {[owner |-> "vote_program", data |-> <<0, 0, 0, 0, 0, 0, 0, 0, 0, 0, 0, 0>>],
     [owner |-> "other_program", data |-> <<1, 2, 3>>]}

\* Instruction payloads: empty, one opcode byte, an opcode with unused bytes.
Payloads ==
    {<<>>, <<0>>, <<1>>, <<2>>, <<3>>, <<0, 1>>}

\* Account lists of an invocation: keys without repetition.
AccountLists == {<<>>, <<1>>, <<1, 2>>, <<2, 1>>}

NoVotes == [a \in AccountKeys |-> [k \in 0..2 |-> 0]]

\* -------------------------------------------------------------- behaviours
InitCall ==
    /\ calls = 0
    /\ accounts = <<>>
    /\ instruction_data = <<>>
    /\ before = ledger
    /\ result = "none"
    /\ vote_account = NoVoteAccount
    /\ written = 0
    /\ votes = NoVotes
    /\ initial = ledger

\* Any accounts the host may hold, under either build profile.
Init ==
    /\ overflow_checks \in BOOLEAN
    /\ \E o1 \in Pubkeys, d1 \in Buffers, a2 \in OtherAccounts :
           ledger = (1 :> [owner |-> o1, data |-> d1]) @@ (2 :> a2)
    /\ InitCall

\* One invocation of the entrypoint by the host, with the accounts keys and
\* the payload instr; the account data the program wrote is the ledger's.
Invoke(keys, instr) ==
    /\ LET accts == [i \in 1..Len(keys) |-> ledger[keys[i]]]
           r == process_instruction(program_id, accts, instr, overflow_checks)
       IN  /\ ledger' = [a \in AccountKeys |->
                           IF \E i \in 1..Len(keys) : keys[i] = a
                           THEN r.accounts[CHOOSE i \in 1..Len(keys) : keys[i] = a]
                           ELSE ledger[a]]
           /\ result' = r.result
           /\ vote_account' = r.vote_account
           /\ written' = r.written
           /\ votes' = IF r.result = "Ok" /\ instr[1] \in 0..2
                       THEN [votes EXCEPT ![keys[1]][instr[1]] = @ + 1]
                       ELSE votes
    /\ before' = ledger
    /\ accounts' = keys
    /\ instruction_data' = instr
    /\ calls' = calls + 1
    /\ UNCHANGED <<overflow_checks, initial>>

Next ==
    /\ calls < MaxCalls
    /\ \E keys \in AccountLists, instr \in Payloads : Invoke(keys, instr)

Spec == Init /\ [][Next]_vars

\* The ledger of test_sanity: the first account holds the serialized
\* VoteAccount {0, 0, 0} and is owned by the program.
SanityInit ==
    /\ overflow_checks \in BOOLEAN
    /\ \E a2 \in OtherAccounts :
           ledger = (1 :> [owner |-> program_id, data |-> ZeroBuffer]) @@ (2 :> a2)
    /\ InitCall

SanityNext ==
    /\ calls < MaxSanityCalls
    /\ \E keys \in AccountLists, instr \in Payloads : Invoke(keys, instr)

SanitySpec == SanityInit /\ [][SanityNext]_vars

\* ------------------------------------------------------------------ claims
\* The last invocation, seen from the state it left behind.
Invoked == calls > 0
HasAccount == Invoked /\ accounts # <<>>
Pre == before[accounts[1]]
Post == ledger[accounts[1]]
RecordSize == 3 * FieldWidth
DecodeErrors ==
    {"BorshIoError(Unexpected length of input)", "BorshIoError(Not all bytes read)"}
Panics == {"Panic(index out of bounds)", "Panic(attempt to add with overflow)"}

\* The counter of record t that opcode k selects.
Selected(t, k) == CASE k = 0 -> t.yes [] k = 1 -> t.abstained [] k = 2 -> t.no

\* v + 1 for a u32 v below u32::MAX, by halves.
Succ(v) == IF v.lo + 1 < HalfRange THEN U32(v.hi, v.lo + 1) ELSE U32(v.hi + 1, 0)

\* The record with counter k of t one higher.
Incremented(t, k) ==
    VoteAccount(IF k = 0 THEN Succ(t.yes) ELSE t.yes,
                IF k = 1 THEN Succ(t.abstained) ELSE t.abstained,
                IF k = 2 THEN Succ(t.no) ELSE t.no)

\* C1: an invocation whose first account is not owned by the program fails
\* with IncorrectProgramId and leaves the account data as it was, whatever
\* the payload and the data.
C1_OwnershipGate ==
    (HasAccount /\ Pre.owner # program_id)
        => (result = "IncorrectProgramId" /\ Post.data = Pre.data)

\* C1 witness: a vote for `yes` on a decodable tally of another owner is refused.
C1_Witness ==
    /\ HasAccount
    /\ Pre.owner # program_id
    /\ Len(Pre.data) = RecordSize
    /\ instruction_data = <<0>>
    /\ result = "IncorrectProgramId"

\* C2: a successful invocation with opcode k in {0, 1, 2} on a tally whose
\* counter k is below u32::MAX leaves the data decoding to the tally with
\* counter k one higher and the two other counters as they were.
C2_SingleIncrement ==
    (/\ Invoked
     /\ result = "Ok"
     /\ instruction_data[1] \in 0..2
     /\ Selected(try_from_slice(Pre.data).value, instruction_data[1]) # U32Max)
        => (/\ Pre.owner = program_id
            /\ try_from_slice(Post.data).err = ""
            /\ try_from_slice(Post.data).value
                   = Incremented(try_from_slice(Pre.data).value, instruction_data[1]))

\* C2 witness: an `abstained` vote takes 65535 to 65536 between two other counters.
C2_Witness ==
    /\ Invoked
    /\ result = "Ok"
    /\ instruction_data[1] = 1
    /\ try_from_slice(Pre.data).value.abstained = U32(0, HalfRange - 1)
    /\ try_from_slice(Post.data).value.abstained = U32(1, 0)

\* C3: with the account owned by the program and 12 bytes of data, a payload
\* whose first byte is not 0, 1 or 2 ends in Ok with the data byte for byte
\* as before.
C3_UnknownOpcodeNoOp ==
    (/\ HasAccount
     /\ Pre.owner = program_id
     /\ Len(Pre.data) = RecordSize
     /\ instruction_data # <<>>
     /\ instruction_data[1] \notin 0..2)
        => (result = "Ok" /\ Post.data = Pre.data)

\* C3 witness: opcode 3 on a tally of twelve different bytes.
C3_Witness ==
    /\ HasAccount
    /\ Pre.owner = program_id
    /\ Pre.data = <<1, 2, 3, 4, 5, 6, 7, 8, 9, 10, 11, 12>>
    /\ instruction_data = <<3>>
    /\ result = "Ok"

\* C4: from the zeroed account of test_sanity, after any sequence of
\* invocations the data decodes to the number of successful invocations
\* per opcode.
C4_VotesAccumulate ==
    /\ try_from_slice(ledger[1].data).err = ""
    /\ try_from_slice(ledger[1].data).value
           = VoteAccount(U32Of(votes[1][0]), U32Of(votes[1][1]), U32Of(votes[1][2]))

\* C4 witness: the third call, payload [2], takes (1, 1, 0) to (1, 1, 1).
C4_Witness ==
    /\ calls = 3
    /\ accounts = <<1>>
    /\ instruction_data = <<2>>
    /\ result = "Ok"
    /\ votes[1] = [k \in 0..2 |-> 1]
    /\ try_from_slice(before[1].data).value = VoteAccount(U32Of(1), U32Of(1), U32Of(0))
    /\ try_from_slice(ledger[1].data).value = VoteAccount(U32Of(1), U32Of(1), U32Of(1))

\* C5: with the account owned by the program and a non-empty payload, data
\* that is not 12 bytes long fails with a decode error and nothing is
\* changed, and data of 12 bytes never fails with a decode error.
C5_LengthEnforced ==
    (HasAccount /\ Pre.owner = program_id /\ instruction_data # <<>>)
        => IF Len(Pre.data) # RecordSize
           THEN result \in DecodeErrors /\ ledger = before
           ELSE result \notin DecodeErrors

\* C5 witness: 13 bytes of data are refused for the byte left over.
C5_Witness ==
    /\ HasAccount
    /\ Pre.owner = program_id
    /\ instruction_data = <<0>>
    /\ Len(Pre.data) = RecordSize + 1
    /\ result = "BorshIoError(Not all bytes read)"

\* C6: an invocation that does not end in Ok leaves every account's data
\* byte for byte as it was.
C6_FailureIsAtomic ==
    (Invoked /\ result # "Ok") => ledger = before

\* C6 witness: the increment panics on overflow, after the decode and
\* before the write.
C6_Witness ==
    /\ HasAccount
    /\ result = "Panic(attempt to add with overflow)"
    /\ instruction_data = <<2>>

\* C7 (as claimed): an invocation with an empty payload returns the error
\* EmptyInstruction and changes nothing.  Stated for the invocations in which
\* no other failure competes: an account owned by the program, 12 bytes.
C7_EmptyPayloadRejected ==
    (/\ HasAccount
     /\ Pre.owner = program_id
     /\ Len(Pre.data) = RecordSize
     /\ instruction_data = <<>>)
        => (result = "EmptyInstruction" /\ ledger = before)

\* C8 (as claimed): an increment of a counter at u32::MAX either saturates
\* (Ok, the tally as before) or fails with the data unchanged; the counter
\* never wraps to 0.
C8_OverflowSafe ==
    (/\ HasAccount
     /\ Pre.owner = program_id
     /\ try_from_slice(Pre.data).err = ""
     /\ instruction_data # <<>>
     /\ instruction_data[1] \in 0..2
     /\ Selected(try_from_slice(Pre.data).value, instruction_data[1]) = U32Max)
        => \/ result # "Ok" /\ Post.data = Pre.data
           \/ /\ result = "Ok"
              /\ try_from_slice(Post.data).value = try_from_slice(Pre.data).value

\* C9: the record an invocation serializes takes exactly 12 bytes and
\* deserializes to the same record.
C9_RoundTrip ==
    (Invoked /\ result = "Ok")
        => (/\ written = RecordSize
            /\ Len(Post.data) = RecordSize
            /\ try_from_slice(Post.data).err = ""
            /\ try_from_slice(Post.data).value = vote_account)

\* C9 witness: a record whose three counters have four different bytes each.
C9_Witness ==
    /\ Invoked
    /\ result = "Ok"
    /\ vote_account = VoteAccount(U32(1027, 514), U32(2055, 1541), U32(3083, 2569))

\* The bytes of field k (0, 1, 2) of a buffer.
FieldOf(data, k) == SubSeq(data, k * FieldWidth + 1, (k + 1) * FieldWidth)

\* b is v written little-endian: b[1] + 256 b[2] + 65536 b[3] + 16777216 b[4] = v.
IsLittleEndian(b, v) ==
    /\ Len(b) = FieldWidth
    /\ v.lo = b[1] + b[2] * ByteRange
    /\ v.hi = b[3] + b[4] * ByteRange

\* b + 1 on little-endian bytes: the carry ripples upwards from b[1].
RECURSIVE RippleIncrement(_)
RippleIncrement(b) ==
    IF b = <<>> THEN <<>>
    ELSE IF Head(b) + 1 < ByteRange THEN <<Head(b) + 1>> \o Tail(b)
    ELSE <<0>> \o RippleIncrement(Tail(b))

\* C10: 12 bytes of data decode to the little-endian u32 of bytes 0..4,
\* 4..8 and 8..12 as yes, abstained and no; and a successful increment of a
\* counter below u32::MAX changes the 4 bytes of that counter into their
\* little-endian successor and no other byte.
C10_BinaryLayout ==
    /\ \A a \in AccountKeys :
         Len(ledger[a].data) = RecordSize
            => /\ try_from_slice(ledger[a].data).err = ""
               /\ IsLittleEndian(FieldOf(ledger[a].data, 0), try_from_slice(ledger[a].data).value.yes)
               /\ IsLittleEndian(FieldOf(ledger[a].data, 1), try_from_slice(ledger[a].data).value.abstained)
               /\ IsLittleEndian(FieldOf(ledger[a].data, 2), try_from_slice(ledger[a].data).value.no)
    /\ (/\ Invoked
        /\ result = "Ok"
        /\ instruction_data[1] \in 0..2
        /\ FieldOf(Pre.data, instruction_data[1]) # <<255, 255, 255, 255>>)
          => /\ Len(Post.data) = Len(Pre.data)
             /\ \A k \in 0..2 :
                  FieldOf(Post.data, k) = IF k = instruction_data[1]
                                          THEN RippleIncrement(FieldOf(Pre.data, k))
                                          ELSE FieldOf(Pre.data, k)

\* C10 witness: a `yes` vote on bytes FF FF FF 00 gives 00 00 00 01 and the
\* next field still starts with FF.
C10_Witness ==
    /\ Invoked
    /\ result = "Ok"
    /\ instruction_data[1] = 0
    /\ FieldOf(Pre.data, 0) = <<255, 255, 255, 0>>
    /\ FieldOf(Post.data, 0) = <<0, 0, 0, 1>>
    /\ FieldOf(Post.data, 1) = <<255, 0, 0, 0>>

\* The data left by n successful invocations with payload [k] on data.
RECURSIVE Repeated(_, _, _)
Repeated(data, k, n) ==
    IF n = 0 THEN data
    ELSE Repeated(process_instruction(program_id,
                                      <<[owner |-> program_id, data |-> data]>>,
                                      <<k>>, overflow_checks).accounts[1].data,
                  k, n - 1)

\* The data left by the votes v (opcode -> count) cast in the order
\* all of opcode 0, then all of opcode 1, then all of opcode 2.
InCanonicalOrder(data, v) == Repeated(Repeated(Repeated(data, 0, v[0]), 1, v[1]), 2, v[2])

\* C11: the data an account holds depends on the data it started with and
\* on how many successful invocations there were per opcode, not on their
\* order: it is the data the same votes leave when cast in the order
\* 0.., 1.., 2...
C11_OrderIndependent ==
    \A a \in AccountKeys : ledger[a].data = InCanonicalOrder(initial[a].data, votes[a])

\* C11 witness: a `no` vote and then a `yes` vote, the reverse of the
\* canonical order, on a tally that did not start at zero.
C11_Witness ==
    /\ calls = 2
    /\ accounts = <<1>>
    /\ instruction_data = <<0>>
    /\ result = "Ok"
    /\ votes[1] = (0 :> 1) @@ (1 :> 0) @@ (2 :> 1)
    /\ initial[1].data = <<1, 2, 3, 4, 5, 6, 7, 8, 9, 10, 11, 12>>
    /\ ledger[1].data = <<2, 2, 3, 4, 5, 6, 7, 8, 10, 10, 11, 12>>

WriteError == "BorshIoError(failed to write whole buffer)"

\* C12: nothing is decoded, incremented or written before the owner check
\* has passed: with an account of another owner the invocation ends in
\* IncorrectProgramId with no record deserialized and no byte written, and
\* never in a decode error, also when the data cannot be decoded.
C12_OwnerCheckFirst ==
    (HasAccount /\ Pre.owner # program_id)
        => /\ result = "IncorrectProgramId"
           /\ result \notin DecodeErrors
           /\ vote_account = NoVoteAccount
           /\ written = 0
           /\ ledger = before

\* C12 witness: another owner's account with 13 bytes of data, a valid opcode.
C12_Witness ==
    /\ HasAccount
    /\ Pre.owner # program_id
    /\ Len(Pre.data) = RecordSize + 1
    /\ instruction_data = <<1>>
    /\ result = "IncorrectProgramId"

\* C13 (as claimed): of several failure conditions the one reported is the
\* earliest of empty payload, owner, decode: an empty payload is reported as
\* EmptyInstruction also with another owner's account or undecodable data,
\* else another owner as IncorrectProgramId, else data that is not 12 bytes
\* as a decode error.
C13_FailurePrecedence ==
    HasAccount
        => /\ (instruction_data = <<>>
                 /\ (Pre.owner # program_id \/ Len(Pre.data) # RecordSize))
                  => result = "EmptyInstruction"
           /\ (instruction_data # <<>> /\ Pre.owner # program_id)
                  => result = "IncorrectProgramId"
           /\ (instruction_data # <<>> /\ Pre.owner = program_id
                 /\ Len(Pre.data) # RecordSize)
                  => result \in DecodeErrors

\* The accounts the last invocation was given, as they were before it.
GivenAccounts == [i \in 1..Len(accounts) |-> before[accounts[i]]]

\* Payloads with the first byte of p and another length or other later bytes.
PayloadVariants(p) == {<<p[1]>>, <<p[1], 0>>, <<p[1], 2, 255>>, p \o <<1>>}

\* C14: an invocation with a non-empty payload ends as, and leaves the data
\* that, an invocation on the same accounts ends as and leaves with any
\* other payload that has the same first byte.
C14_OnlyFirstByte ==
    (Invoked /\ instruction_data # <<>>)
        => \A q \in PayloadVariants(instruction_data) :
             /\ process_instruction(program_id, GivenAccounts, q, overflow_checks).result
                    = result
             /\ \A i \in 1..Len(accounts) :
                    process_instruction(program_id, GivenAccounts, q,
                                        overflow_checks).accounts[i]
                        = ledger[accounts[i]]

\* C14 witness: payload [0, 1] counted as a `yes` vote.
C14_Witness ==
    /\ HasAccount
    /\ instruction_data = <<0, 1>>
    /\ result = "Ok"
    /\ FieldOf(Post.data, 0) # FieldOf(Pre.data, 0)
    /\ FieldOf(Post.data, 1) = FieldOf(Pre.data, 1)

\* C15: serialize never fails: a record is deserialized only from data of
\* exactly 12 bytes, which is what serialize needs, so an invocation that got
\* past the increment ends in Ok with all 12 bytes written, and no
\* invocation ends in a write error.
C15_EncodeCannotFail ==
    Invoked
        => /\ result # WriteError
           /\ vote_account # NoVoteAccount => Len(Pre.data) = RecordSize
           /\ (vote_account # NoVoteAccount /\ result \notin Panics)
                  => /\ result = "Ok"
                     /\ written = RecordSize
                     /\ try_from_slice(Post.data).value = vote_account

\* C15 witness: a record incremented in memory and then written in full.
C15_Witness ==
    /\ HasAccount
    /\ result = "Ok"
    /\ instruction_data = <<2>>
    /\ vote_account # try_from_slice(Pre.data).value
    /\ written = RecordSize
    /\ try_from_slice(Post.data).value = vote_account

\* The conditions under which the last invocation is claimed to succeed.
SuccessConditions ==
    /\ accounts # <<>>
    /\ Pre.owner = program_id
    /\ Len(Pre.data) = RecordSize
    /\ instruction_data # <<>>
    /\ instruction_data[1] \in 0..2
          => Selected(try_from_slice(Pre.data).value, instruction_data[1]) # U32Max

\* C16 (as claimed): no invocation changes the length of any account's
\* data, and an invocation ends in Ok exactly when the account list is not
\* empty, the first account is owned by the program, its data is 12 bytes
\* long, the payload is not empty and the selected counter, if any, is below
\* u32::MAX.
C16_LengthKeptAndSuccessIff ==
    Invoked
        => /\ \A a \in AccountKeys : Len(ledger[a].data) = Len(before[a].data)
           /\ (result = "Ok") <=> SuccessConditions

\* C17: an invocation changes no owner and no data but the data of the first
\* account of its list, it ends as it would with that account alone, and
\* with an empty list it ends in NotEnoughAccountKeys with nothing
\* deserialized and nothing written.
C17_OnlyFirstAccount ==
    Invoked
        => /\ \A a \in AccountKeys : ledger[a].owner = before[a].owner
           /\ \A a \in AccountKeys :
                (accounts = <<>> \/ a # accounts[1]) => ledger[a] = before[a]
           /\ accounts # <<>>
                => /\ process_instruction(program_id, <<Pre>>, instruction_data,
                                          overflow_checks).result = result
                   /\ process_instruction(program_id, <<Pre>>, instruction_data,
                                          overflow_checks).accounts[1] = Post
           /\ accounts = <<>>
                => /\ result = "NotEnoughAccountKeys"
                   /\ vote_account = NoVoteAccount
                   /\ written = 0

\* C17 witness: with the list [2, 1] a `yes` vote lands in account 2 and
\* account 1, a tally of the program as well, is as it was.
C17_Witness ==
    /\ Invoked
    /\ accounts = <<2, 1>>
    /\ instruction_data = <<0>>
    /\ result = "Ok"
    /\ ledger[2].data # before[2].data
    /\ before[1].owner = program_id
    /\ Len(before[1].data) = RecordSize
    /\ ledger[1] = before[1]

====
